---------------------------- MODULE Spec2Model ----------------------------
(***************************************************************************)
(* The tree-layout engine of src/src/App.tsx: createFileDatas turns a flat *)
(* list of '/'-delimited paths into a positioned node graph (tree build,   *)
(* sibling order, column offsets, recursive row stacking), and each File   *)
(* component's mount effect routes the connector from a node to its        *)
(* children.                                                               *)
(*                                                                         *)
(* A string is a sequence of character codes.  Only the relative order of  *)
(* the codes matters ('/' sorts below every letter, as in UTF-16).         *)
(***************************************************************************)
EXTENDS Integers, Sequences, FiniteSets, TLC

VARIABLES
    filePaths,    \* the argument of createFileDatas
    measure,      \* the text-width oracle measureTextWidth, a function of the content;
                  \* <<>> until the first text is measured
    pc,           \* position in App's effect / createFileDatas / the render
    pathIdx,      \* index of the next filePath of the outer forEach (1-based)
    filesMap,     \* the Map's values in insertion order: a sequence of FileData
    levelOffset,  \* the levelOffset array (1-based: levelOffset[level + 1])
    rootIdx,      \* position of the root placement loop in its sorted root list
    lastChild,    \* the loop's lastChild: <<>> (undefined) or <<path>>
    layout,       \* App's layout state {width, height}
    connectors    \* the connector geometry appended by the File effects

vars == <<filePaths, measure, pc, pathIdx, filesMap, levelOffset, rootIdx,
          lastChild, layout, connectors>>

----------------------------------------------------------------------------
(* Bounds of the model *)

MaxTotalSegs == 5

(* Program constants *)

Slash == 0
RectHeight == 32
RowGap == 16
Padding == 40
Gap == 60
StubLen == 5
TextDy == 16

Dir == "dir"
Js == "js"

(* Segment names the inputs are drawn from: "a", "ab", "b"; and the widths *)
(* the oracle may report for a name.                                       *)
Names == {<<1>>, <<1, 2>>, <<2>>}
Widths == {0, 30}

----------------------------------------------------------------------------
(* Strings *)

RECURSIVE SplitFrom(_, _, _, _)
SplitFrom(s, i, cur, acc) ==
    IF i > Len(s) THEN Append(acc, cur)
    ELSE IF s[i] = Slash THEN SplitFrom(s, i + 1, <<>>, Append(acc, cur))
    ELSE SplitFrom(s, i + 1, Append(cur, s[i]), acc)

\* filePath.split('/')
Split(s) == SplitFrom(s, 1, <<>>, <<>>)

\* segs.join('/')
RECURSIVE Join(_)
Join(segs) ==
    IF Len(segs) = 0 THEN <<>>
    ELSE IF Len(segs) = 1 THEN segs[1]
    ELSE segs[1] \o <<Slash>> \o Join(Tail(segs))

\* a < b on strings: lexicographic by code unit, a proper prefix is smaller
RECURSIVE StrLess(_, _)
StrLess(a, b) ==
    IF Len(b) = 0 THEN FALSE
    ELSE IF Len(a) = 0 THEN TRUE
    ELSE IF a[1] # b[1] THEN a[1] < b[1]
    ELSE StrLess(Tail(a), Tail(b))

Min(a, b) == IF a < b THEN a ELSE b
Max(a, b) == IF a > b THEN a ELSE b

----------------------------------------------------------------------------
(* The inputs: lists of well-formed paths (no empty segment), duplicates   *)
(* and shared prefixes included, of at most MaxTotalSegs segments in all   *)

RECURSIVE SegLists(_)
SegLists(n) ==
    IF n = 0 THEN {<<>>}
    ELSE {Append(l, s) : l \in SegLists(n - 1), s \in Names}

\* the well-formed paths of exactly n segments
PathsOfSegs(n) == {Join(l) : l \in SegLists(n)}

RECURSIVE InputsUpTo(_)
InputsUpTo(t) ==
    {<<>>} \cup UNION {{<<p>> \o l : p \in PathsOfSegs(n), l \in InputsUpTo(t - n)} : n \in 1..t}

Inputs == InputsUpTo(MaxTotalSegs)

----------------------------------------------------------------------------
(* FileData and the Map *)

\* filesMap.has(path)
Has(fm, path) == \E i \in 1..Len(fm) : fm[i].path = path

\* position of filesMap.get(path) among the Map's values
IndexOf(fm, path) ==
    CHOOSE i \in 1..Len(fm) :
        /\ fm[i].path = path
        /\ \A j \in 1..(i - 1) : fm[j].path # path

\* filesMap.get(path)
Get(fm, path) == fm[IndexOf(fm, path)]

\* children.includes(child)
Includes(children, path) == \E i \in 1..Len(children) : children[i] = path

NodeType_FirstSeg(index, n) == IF index = 1 THEN Js ELSE Dir

\* index === n - 1 ? FileType.Js : FileType.Dir   (index is 1-based here)
NodeType(index, n) == IF index = n THEN Js ELSE Dir

\* the FileData literal of the paths.map callback
NewFileData(path, type, base, index) ==
    [children |-> <<>>, parent |-> <<>>, path |-> path, type |-> type,
     base |-> base, level |-> index - 1, seq |-> 0, x |-> 0, y |-> 0]

\* paths.map(...): look up or create the node of every prefix, left to right
RECURSIVE CreateNodes(_, _, _)
CreateNodes(fm, paths, index) ==
    IF index > Len(paths) THEN fm
    ELSE LET path == Join(SubSeq(paths, 1, index))
             data == NewFileData(path, NodeType(index, Len(paths)), paths[index], index)
         IN  CreateNodes(IF Has(fm, path) THEN fm ELSE Append(fm, data), paths, index + 1)

PushChild_NoCheck(children, path) == Append(children, path)

\* if (!children.includes(child)) children.push(child)
PushChild(children, path) ==
    IF Includes(children, path) THEN children ELSE Append(children, path)

\* for (let i = 1; i < n; i++): set parent, children  (i is 1-based: 2..n)
RECURSIVE LinkNodes(_, _, _)
LinkNodes(fm, paths, i) ==
    IF i > Len(paths) THEN fm
    ELSE LET child == Join(SubSeq(paths, 1, i))
             parent == Join(SubSeq(paths, 1, i - 1))
             ci == IndexOf(fm, child)
             pi == IndexOf(fm, parent)
             fm1 == [fm EXCEPT ![ci].parent = <<parent>>]
             fm2 == [fm1 EXCEPT ![pi].children = PushChild(@, child)]
         IN  LinkNodes(fm2, paths, i + 1)

\* one iteration of filePaths.forEach
AddFilePath(fm, filePath) ==
    LET paths == Split(filePath)
    IN  LinkNodes(CreateNodes(fm, paths, 1), paths, 2)


----------------------------------------------------------------------------
(* Array.prototype.toSorted with each of the three comparators.  The sort  *)
(* is stable; a stable insertion sort gives the same result.               *)

ChildCmp_BaseOnly(a, b) == IF StrLess(a.base, b.base) THEN -1 ELSE 1

\* the comparator of fileData.children.toSorted in "set seq"
ChildCmp(a, b) ==
    IF a.type # b.type /\ a.type = Dir THEN -1
    ELSE IF a.type # b.type /\ b.type = Dir THEN 1
    ELSE IF StrLess(a.base, b.base) THEN -1 ELSE 1

\* the comparator of the levelOffset pass
LevelCmp(a, b) ==
    IF a.level # b.level THEN a.level - b.level
    ELSE Len(b.children) - Len(a.children)

SeqCmp_Descending(a, b) == b.seq - a.seq

\* (a, b) => a.seq - b.seq
SeqCmp(a, b) == a.seq - b.seq

Compare(kind, a, b) ==
    CASE kind = "children" -> ChildCmp(a, b)
      [] kind = "level" -> LevelCmp(a, b)
      [] kind = "seq" -> SeqCmp(a, b)

RECURSIVE InsertSorted(_, _, _)
InsertSorted(kind, sorted, e) ==
    IF Len(sorted) = 0 THEN <<e>>
    ELSE IF Compare(kind, sorted[Len(sorted)], e) > 0
         THEN Append(InsertSorted(kind, SubSeq(sorted, 1, Len(sorted) - 1), e),
                     sorted[Len(sorted)])
         ELSE Append(sorted, e)

RECURSIVE SortFrom(_, _, _, _)
SortFrom(kind, s, i, acc) ==
    IF i > Len(s) THEN acc
    ELSE SortFrom(kind, s, i + 1, InsertSorted(kind, acc, s[i]))

ToSorted(kind, s) == SortFrom(kind, s, 1, <<>>)

\* the FileData objects a children array refers to
Deref(fm, children) == [i \in 1..Len(children) |-> Get(fm, children[i])]

----------------------------------------------------------------------------
(* set seq *)

RootSeqNext_Same(rootSeq) == rootSeq

\* rootSeq++
RootSeqNext(rootSeq) == rootSeq + 1

\* .forEach((child, index) => { child.seq = index })
RECURSIVE AssignSeq(_, _, _)
AssignSeq(fm, sorted, i) ==
    IF i > Len(sorted) THEN fm
    ELSE AssignSeq([fm EXCEPT ![IndexOf(fm, sorted[i].path)].seq = i - 1], sorted, i + 1)

\* [...filesMap.values()].forEach(...) of "set seq", from the k-th value on
RECURSIVE SetSeqFrom(_, _, _)
SetSeqFrom(fm, k, rootSeq) ==
    IF k > Len(fm) THEN fm
    ELSE LET isRoot == fm[k].level = 0
             fm1 == IF isRoot THEN [fm EXCEPT ![k].seq = rootSeq] ELSE fm
             sorted == ToSorted("children", Deref(fm1, fm1[k].children))
         IN  SetSeqFrom(AssignSeq(fm1, sorted, 1), k + 1,
                        IF isRoot THEN RootSeqNext(rootSeq) ELSE rootSeq)

----------------------------------------------------------------------------
(* calc levelOffset *)

\* levelOffset[level], undefined read as 0 by "|| 0"
OffsetOr0(lo, level) == IF level + 1 <= Len(lo) THEN lo[level + 1] ELSE 0

\* levelOffset[level] = v; levels arrive in ascending order, so the array
\* never has a hole (a skipped slot would read as 0 here)
SetOffset(lo, level, v) ==
    [i \in 1..Max(Len(lo), level + 1) |->
        IF i = level + 1 THEN v ELSE IF i <= Len(lo) THEN lo[i] ELSE 0]

Widens_Always(lo, file) == TRUE

\* !levelOffset[file.level] || file.children.length > 0
Widens(lo, file) == OffsetOr0(lo, file.level) = 0 \/ Len(file.children) > 0

\* the forEach callback of the levelOffset pass
WidenColumn(m, lo, file) ==
    IF Widens(lo, file)
    THEN SetOffset(lo, file.level, Max(OffsetOr0(lo, file.level), m[file.base] + Padding))
    ELSE lo

RECURSIVE ColumnWidths(_, _, _, _)
ColumnWidths(m, sorted, i, lo) ==
    IF i > Len(sorted) THEN lo
    ELSE ColumnWidths(m, sorted, i + 1, WidenColumn(m, lo, sorted[i]))

\* levelOffset.pop()
Pop(lo) == IF Len(lo) = 0 THEN lo ELSE SubSeq(lo, 1, Len(lo) - 1)

\* for (i = 1; ...) levelOffset[i] = levelOffset[i - 1] + levelOffset[i]
RECURSIVE RunningTotals(_, _)
RunningTotals(lo, i) ==
    IF i > Len(lo) THEN lo
    ELSE RunningTotals([lo EXCEPT ![i] = lo[i - 1] + lo[i]], i + 1)

GapAt_OffByOne(i) == i * Gap

\* (i + 1) * 60, i the 0-based index
GapAt(i) == (i + 1) * Gap

\* for (i = 0; ...) levelOffset[i] = levelOffset[i] + (i + 1) * 60
AddGaps(lo) == [i \in 1..Len(lo) |-> lo[i] + GapAt(i - 1)]

\* levelOffset.unshift(0)
Unshift0(lo) == <<0>> \o lo

CalcOffsets(m, fm) ==
    Unshift0(AddGaps(RunningTotals(
        Pop(ColumnWidths(m, ToSorted("level", fm), 1, <<>>)), 2)))

----------------------------------------------------------------------------
(* set x, y *)

RowY_NoAdvance(baseY, seq) == baseY
RowY_EverySeq(baseY, seq) == baseY + seq * (RectHeight + RowGap)
RowY_Always(baseY, seq) == baseY + (RectHeight + RowGap)

\* baseY + Math.min(1, fileData.seq) * (32 + 16)
RowY(baseY, seq) == baseY + Min(1, seq) * (RectHeight + RowGap)

\* setFilePos returns lastChild; here the files after the call and the path
\* of the returned FileData
RECURSIVE SetFilePos(_, _, _, _)
RECURSIVE PlaceChildren(_, _, _, _, _)
SetFilePos(fm, lo, path, baseY) ==
    LET k == IndexOf(fm, path)
        fm1 == [fm EXCEPT ![k].x = lo[fm[k].level + 1],
                          ![k].y = RowY(baseY, fm[k].seq)]
        kids == ToSorted("seq", Deref(fm1, fm1[k].children))
    IN  PlaceChildren(fm1, lo, kids, 1, path)

PlaceChildren(fm, lo, kids, i, last) ==
    IF i > Len(kids) THEN [files |-> fm, last |-> last]
    ELSE LET r == SetFilePos(fm, lo, kids[i].path, Get(fm, last).y)
         IN  PlaceChildren(r.files, lo, kids, i + 1, r.last)

IsRoot(file) == file.level = 0

\* [...filesMap.values()].filter(level === 0).toSorted(by seq)
RootFiles(fm) == ToSorted("seq", SelectSeq(fm, IsRoot))

----------------------------------------------------------------------------
(* App's effect after createFileDatas returns, and the File mount effect *)

RECURSIVE MaxOver(_, _, _, _)
MaxOver(fm, field, i, acc) ==
    IF i > Len(fm) THEN acc
    ELSE MaxOver(fm, field, i + 1, Max(acc, IF field = "x" THEN fm[i].x ELSE fm[i].y))

\* files.forEach: x = Math.max(x, file.x); y = Math.max(y, file.y)
LayoutOf(fm) == [width |-> MaxOver(fm, "x", 1, 0), height |-> MaxOver(fm, "y", 1, 0)]

RECURSIVE MaxChildY(_, _, _)
MaxChildY(kids, i, acc) ==
    IF i > Len(kids) THEN acc
    ELSE MaxChildY(kids, i + 1, IF acc = <<>> THEN <<kids[i].y>> ELSE <<Max(acc[1], kids[i].y)>>)

\* the connector of one File with children; mid = (x0 + x1) / 2 is kept as
\* the exact fraction num / den
Connector(m, fm, file) ==
    LET kids == Deref(fm, file.children)
        x0 == file.x + m[file.base] + Padding + StubLen
        x1 == kids[1].x - StubLen
    IN  [path |-> file.path,
         x0 |-> x0, y0 |-> file.y + TextDy,
         x1 |-> x1, y1 |-> MaxChildY(kids, 1, <<>>)[1] + TextDy,
         mid |-> [num |-> x0 + x1, den |-> 2],
         stubs |-> [i \in 1..Len(kids) |-> kids[i].y + TextDy]]

HasChildren(file) == Len(file.children) > 0

\* files.map(file => <File/>): the mount effect of every File, in order
Connectors(m, fm) ==
    LET parents == SelectSeq(fm, HasChildren)
    IN  [i \in 1..Len(parents) |-> Connector(m, fm, parents[i])]

----------------------------------------------------------------------------
(* The state machine *)

Init ==
    /\ filePaths \in Inputs
    /\ measure = <<>>
    /\ pc = "build"
    /\ pathIdx = 1
    /\ filesMap = <<>>
    /\ levelOffset = <<>>
    /\ rootIdx = 1
    /\ lastChild = <<>>
    /\ layout = [width |-> 0, height |-> 0]
    /\ connectors = <<>>

\* one iteration of filePaths.forEach
BuildPath ==
    /\ pc = "build"
    /\ pathIdx <= Len(filePaths)
    /\ filesMap' = AddFilePath(filesMap, filePaths[pathIdx])
    /\ pathIdx' = pathIdx + 1
    /\ UNCHANGED <<filePaths, measure, pc, levelOffset, rootIdx, lastChild, layout, connectors>>

\* the "set seq" pass
SetSeq ==
    /\ pc = "build"
    /\ pathIdx > Len(filePaths)
    /\ filesMap' = SetSeqFrom(filesMap, 1, 0)
    /\ pc' = "offset"
    /\ UNCHANGED <<filePaths, measure, pathIdx, levelOffset, rootIdx, lastChild, layout, connectors>>

\* the "calc levelOffset" pass, the first to measure text: the rendering
\* surface answers with one width per content, the same from then on
CalcLevelOffset ==
    /\ pc = "offset"
    /\ \E m \in [Names -> Widths] :
           /\ measure' = m
           /\ levelOffset' = CalcOffsets(m, filesMap)
    /\ pc' = "pos"
    /\ UNCHANGED <<filePaths, pathIdx, filesMap, rootIdx, lastChild, layout, connectors>>

\* one iteration of the root placement loop
PlaceRoot ==
    /\ pc = "pos"
    /\ rootIdx <= Len(RootFiles(filesMap))
    /\ LET root == RootFiles(filesMap)[rootIdx]
           baseY == IF lastChild = <<>> THEN 0 ELSE Get(filesMap, lastChild[1]).y
           r == SetFilePos(filesMap, levelOffset, root.path, baseY)
       IN  /\ filesMap' = r.files
           /\ lastChild' = <<r.last>>
    /\ rootIdx' = rootIdx + 1
    /\ UNCHANGED <<filePaths, measure, pc, pathIdx, levelOffset, layout, connectors>>

\* createFileDatas returns; App stores layout, files and levelOffset
AppSetState ==
    /\ pc = "pos"
    /\ rootIdx > Len(RootFiles(filesMap))
    /\ layout' = LayoutOf(filesMap)
    /\ pc' = "render"
    /\ UNCHANGED <<filePaths, measure, pathIdx, filesMap, levelOffset, rootIdx, lastChild, connectors>>

\* the Files mount; each File with children appends its connector path
RenderFiles ==
    /\ pc = "render"
    /\ connectors' = Connectors(measure, filesMap)
    /\ pc' = "done"
    /\ UNCHANGED <<filePaths, measure, pathIdx, filesMap, levelOffset, rootIdx, lastChild, layout>>

Next ==
    \/ BuildPath
    \/ SetSeq
    \/ CalcLevelOffset
    \/ PlaceRoot
    \/ AppSetState
    \/ RenderFiles

Spec == Init /\ [][Next]_vars

----------------------------------------------------------------------------
(* Vocabulary of the properties *)

\* the tree build has just consumed the last input path
BuildDone == pc = "build" /\ pathIdx > Len(filePaths)

\* createFileDatas has just returned: every node is placed
Returned == pc = "render"

\* every File has run its mount effect
Rendered == pc = "done"

Node == 1..Len(filesMap)
Parents == {i \in Node : Len(filesMap[i].children) > 0}
Roots == {i \in Node : filesMap[i].level = 0}

\* the nodes listed (at least once) in node i's children collection
Kids(i) ==
    {IndexOf(filesMap, filesMap[i].children[n]) : n \in 1..Len(filesMap[i].children)}

RECURSIVE Subtree(_)
Subtree(i) == {i} \cup UNION {Subtree(j) : j \in Kids(i)}

SubtreeYs(i) == {filesMap[j].y : j \in Subtree(i)}

SetMax(S) == CHOOSE v \in S : \A w \in S : w <= v
SetMin(S) == CHOOSE v \in S : \A w \in S : v <= w

\* the groups of siblings: the roots, and the children of each parent
SiblingGroups == {Roots} \cup {Kids(k) : k \in Parents}

\* ranking rule of the sibling sort: Directory before Leaf, then names ascending
RankedBefore(a, b) ==
    /\ ~(a.type = Js /\ b.type = Dir)
    /\ a.type = b.type => StrLess(a.base, b.base)

\* the non-empty prefixes of string s that end just before a '/' or at its end
PrefixesOf(s) ==
    {SubSeq(s, 1, k) : k \in {n \in 1..Len(s) : n = Len(s) \/ s[n + 1] = Slash}}

\* the index of the first input path that has p as such a prefix
FirstUse(p) ==
    CHOOSE k \in 1..Len(filePaths) :
        /\ p \in PrefixesOf(filePaths[k])
        /\ \A h \in 1..(k - 1) : p \notin PrefixesOf(filePaths[h])

\* number of slots of node k's children collection that hold path p
Slots(k, p) ==
    Cardinality({n \in 1..Len(filesMap[k].children) : filesMap[k].children[n] = p})

\* width of the column at depth d: widest padded label among its parents
W(d) == SetMax({measure[filesMap[i].base] + Padding : i \in {j \in Parents : filesMap[j].level = d}})

MaxDepth == SetMax({filesMap[i].level : i \in Node})

RowHeight == RectHeight + RowGap

----------------------------------------------------------------------------
(* C1: after createFileDatas, the subtrees of two distinct siblings (or of *)
(* two distinct roots) occupy disjoint sets of y values.                   *)
C1_SiblingSubtreesDisjoint ==
    Returned =>
        \A g \in SiblingGroups : \A i, j \in g :
            i # j => SubtreeYs(i) \cap SubtreeYs(j) = {}

\* two sibling subtrees of more than one node each have been placed
C1_Witness ==
    /\ Returned
    /\ \E g \in SiblingGroups : \E i, j \in g : i # j /\ i \in Parents /\ j \in Parents

(* C2: the children of every node carry the seq values 0..k-1 without      *)
(* repeats; by ascending seq every Directory child precedes every Leaf     *)
(* child, and names of one kind ascend strictly under '<'.                 *)
C2_ChildrenOrder ==
    Returned =>
        \A k \in Parents :
            /\ Cardinality(Kids(k)) = Len(filesMap[k].children)
            /\ {filesMap[j].seq : j \in Kids(k)} = 0..(Cardinality(Kids(k)) - 1)
            /\ \A i, j \in Kids(k) :
                   filesMap[i].seq < filesMap[j].seq => RankedBefore(filesMap[i], filesMap[j])

\* a Directory child ranked first although its name is the larger one
C2_Witness ==
    /\ Returned
    /\ \E k \in Parents : \E i, j \in Kids(k) :
           /\ filesMap[i].type = Dir /\ filesMap[j].type = Js
           /\ StrLess(filesMap[j].base, filesMap[i].base)
           /\ filesMap[i].seq = 0 /\ filesMap[j].seq = 1

(* C3 as claimed: by ascending seq the roots are ranked like children,     *)
(* Directory before Leaf and names ascending, whatever the input order.    *)
C3_RootsRankedLikeChildren ==
    Returned =>
        \A i, j \in Roots :
            filesMap[i].seq < filesMap[j].seq => RankedBefore(filesMap[i], filesMap[j])

(* C3 as amended: the roots carry the seq values 0..r-1 without repeats,   *)
(* in the order in which they first appear in the input.                   *)
C3_RootsInInputOrder ==
    Returned =>
        /\ {filesMap[i].seq : i \in Roots} = 0..(Cardinality(Roots) - 1)
        /\ \A i, j \in Roots :
               filesMap[i].seq < filesMap[j].seq
                   <=> FirstUse(filesMap[i].path) < FirstUse(filesMap[j].path)

\* a Leaf root that appears first is ranked before a Directory root
C3_Witness ==
    /\ Returned
    /\ \E i, j \in Roots :
           /\ filesMap[i].type = Js /\ filesMap[j].type = Dir
           /\ filesMap[i].seq < filesMap[j].seq

(* C4 as claimed: a node with children sits at the vertical center of its  *)
(* children's rows, y = (smallest child y + largest child y) / 2.          *)
C4_ParentAtCenter ==
    Returned =>
        \A k \in Parents :
            LET ys == {filesMap[j].y : j \in Kids(k)}
            IN  2 * filesMap[k].y = SetMin(ys) + SetMax(ys)

(* C4 as amended: a node with children sits at the top of its children's   *)
(* row span, y = smallest child y.                                         *)
C4_ParentAtTop ==
    Returned =>
        \A k \in Parents : filesMap[k].y = SetMin({filesMap[j].y : j \in Kids(k)})

\* a placed node whose children span more than one row
C4_Witness ==
    /\ Returned
    /\ \E k \in Parents : Cardinality({filesMap[j].y : j \in Kids(k)}) > 1

(* C5: the built nodes are exactly the non-empty '/'-prefixes of the input *)
(* paths, one node per prefix; a non-root node fills exactly one slot of   *)
(* the children collection of its parent prefix's node and none elsewhere. *)
C5_OneNodePerPrefix ==
    BuildDone =>
        /\ {filesMap[i].path : i \in Node}
               = UNION {PrefixesOf(filePaths[k]) : k \in 1..Len(filePaths)}
        /\ \A i, j \in Node : filesMap[i].path = filesMap[j].path => i = j
        /\ \A i \in Node : \A k \in Node :
               LET p == filesMap[i].path
                   isParent == /\ filesMap[k].path \in PrefixesOf(p)
                               /\ Len(filesMap[k].path) + 1 + Len(filesMap[i].base) = Len(p)
               IN  Slots(k, p) = IF isParent THEN 1 ELSE 0

\* a path with a parent was given twice, and a proper prefix of an input
\* path was given as a path of its own
C5_Witness ==
    /\ BuildDone
    /\ \E h, k \in 1..Len(filePaths) :
           h < k /\ filePaths[h] = filePaths[k] /\ Len(Split(filePaths[k])) > 1
    /\ \E h, k \in 1..Len(filePaths) :
           filePaths[h] # filePaths[k] /\ filePaths[h] \in PrefixesOf(filePaths[k])

(* C6 as claimed: a node is a Leaf iff its path is one of the input paths, *)
(* whatever the order of the input.                                        *)
C6_LeafIffInput ==
    BuildDone =>
        \A i \in Node :
            filesMap[i].type = Js
                <=> \E k \in 1..Len(filePaths) : filePaths[k] = filesMap[i].path

(* C6 as amended: a node is a Leaf iff the first input path that has the   *)
(* node's path as a '/'-prefix is that path itself.                        *)
C6_LeafIffFirstUseIsInput ==
    BuildDone =>
        \A i \in Node :
            filesMap[i].type = Js
                <=> filePaths[FirstUse(filesMap[i].path)] = filesMap[i].path

\* a Directory node whose path is an input path given after a deeper one
C6_Witness ==
    /\ BuildDone
    /\ \E i \in Node :
           /\ filesMap[i].type = Dir
           /\ \E k \in 1..Len(filePaths) : filePaths[k] = filesMap[i].path

(* C7: levelOffset has one entry per depth 0..maxDepth, starts at 0 and    *)
(* grows by W(i-1) + 60 per depth, W(d) the widest padded label among the  *)
(* nodes at depth d that have children; every node's x is its depth's      *)
(* entry.  (Without any node the table is the single entry 0.)             *)
C7_LevelOffsets ==
    Returned =>
        /\ levelOffset[1] = 0
        /\ Len(levelOffset) = IF Node = {} THEN 1 ELSE MaxDepth + 1
        /\ \A d \in 1..(Len(levelOffset) - 1) :
               levelOffset[d + 1] = levelOffset[d] + W(d - 1) + Gap
        /\ \A i \in Node : filesMap[i].x = levelOffset[filesMap[i].level + 1]

\* a childless node above the deepest level has the widest label of its level
C7_Witness ==
    /\ Returned
    /\ \E i \in Node \ Parents :
           /\ filesMap[i].level < MaxDepth
           /\ measure[filesMap[i].base] + Padding > W(filesMap[i].level)

(* C8: a node with children sits on the row of its first child in display  *)
(* order (seq 0); hence a single chain lies on one row.                    *)
C8_ParentAtFirstChild ==
    Returned =>
        /\ \A k \in Parents : \E j \in Kids(k) :
               filesMap[j].seq = 0 /\ filesMap[k].y = filesMap[j].y
        /\ (Cardinality(Roots) = 1 /\ \A k \in Node : Cardinality(Kids(k)) <= 1)
               => /\ \A i, j \in Node : filesMap[i].y = filesMap[j].y
                  /\ layout.height = 0

\* a single chain of three nodes has been placed
C8_Witness ==
    /\ Returned
    /\ Cardinality(Node) = 3
    /\ Cardinality(Roots) = 1
    /\ \A k \in Node : Cardinality(Kids(k)) <= 1

(* C9: of two siblings (or roots) consecutive in display order, the later  *)
(* one sits exactly one row height (48) below the largest y of the earlier *)
(* one's subtree.                                                          *)
C9_NextSiblingOneRowBelow ==
    Returned =>
        \A g \in SiblingGroups : \A i, j \in g :
            filesMap[j].seq = filesMap[i].seq + 1
                => filesMap[j].y = SetMax(SubtreeYs(i)) + RowHeight

\* the earlier sibling's subtree ends below the earlier sibling's own row
C9_Witness ==
    /\ Returned
    /\ \E g \in SiblingGroups : \E i, j \in g :
           /\ filesMap[j].seq = filesMap[i].seq + 1
           /\ SetMax(SubtreeYs(i)) > filesMap[i].y

(* C10: for a node with children, the box's right edge x + measure + 40 is *)
(* left of the children's common x, the connector's start x0 is left of    *)
(* its end x1, and the trunk at (x0 + x1) / 2 lies strictly between the    *)
(* parent's right edge and the children's left edge.                       *)
C10_ConnectorBetweenBoxes ==
    Rendered =>
        /\ Len(connectors) = Cardinality(Parents)
        /\ \A n \in 1..Len(connectors) :
               LET c == connectors[n]
                   file == Get(filesMap, c.path)
                   right == file.x + measure[file.base] + Padding
                   k == IndexOf(filesMap, c.path)
               IN  /\ \A i, j \in Kids(k) : filesMap[i].x = filesMap[j].x
                   /\ \A j \in Kids(k) :
                          /\ right < filesMap[j].x
                          /\ c.x0 = right + StubLen
                          /\ c.x1 = filesMap[j].x - StubLen
                          /\ c.x0 < c.x1
                          /\ right * c.mid.den < c.mid.num
                          /\ c.mid.num < filesMap[j].x * c.mid.den

\* a connector was routed from the widest label of its column
C10_Witness ==
    /\ Rendered
    /\ \E n \in 1..Len(connectors) :
           LET file == Get(filesMap, connectors[n].path)
           IN  /\ measure[file.base] + Padding = W(file.level)
               /\ \E i \in Parents :
                      /\ filesMap[i].level = file.level
                      /\ measure[filesMap[i].base] < measure[file.base]

============================================================================
